---- MODULE Spec2Model ----
(***************************************************************************)
(* A model of the RUT utilities of src/src/rut.util.ts (Chilean national   *)
(* identifier: a body of digits plus a check character computed modulo 11).*)
(*                                                                         *)
(* A JavaScript string is modelled as a sequence of one-character strings: *)
(* "12-K" is <<"1","2","-","K">> and "" is <<>>.  The value null is the    *)
(* one-element sequence Null, which is no string because its element has   *)
(* more than one character.                                                *)
(*                                                                         *)
(* The library is a set of functions over one piece of shared state, the   *)
(* check-character cache dvCache.  A behaviour of the model is a caller    *)
(* that holds one input string and calls the library a bounded number of   *)
(* times, each time on its input or on a string an earlier call returned.  *)
(*                                                                         *)
(* The callers differ in what they hold and in what they call:             *)
(*   Spec, SpecRut    decompose, compute, validate, format, complete       *)
(*   SpecPredicates   the predicates, on strings, null and non-strings     *)
(*   SpecMemo         calculateRutVerifier and clearCache, again and again *)
(*   SpecMask         maskRutInput and normalizeRut                        *)
(*   SpecVerifier     calculateRutVerifier and completeRut, null included  *)
(*   SpecSample       generateRandomRut and validateRutFull                *)
(*   SpecClean        cleanRut and deconstructRut, on typed and pasted text*)
(* A call that throws is recorded with the outcome TypeError.              *)
(***************************************************************************)
EXTENDS Integers, Sequences, FiniteSets, TLC

VARIABLES input, calls, dvCache

vars == <<input, calls, dvCache>>

(***************************************************************************)
(* Characters and strings                                                  *)
(***************************************************************************)

Digits10 == <<"0", "1", "2", "3", "4", "5", "6", "7", "8", "9">>

DigitChars == {Digits10[i] : i \in 1..Len(Digits10)}

Null == <<"null">>

\* an argument that is no string and is not falsy (a number, an object): it
\* passes a "!x" guard and has no replace method
NonString == <<"number">>

\* the outcome of a call that throws (x.replace on null or on a non-string)
TypeError == <<"TypeError">>

\* typeof x === "string"
isString(x) == x # Null /\ x # NonString

\* \d : an ASCII decimal digit
isDigit(c) == c \in DigitChars

\* codePointAt(i) - 48 of a decimal digit
digitValue(c) == (CHOOSE i \in 1..Len(Digits10) : Digits10[i] = c) - 1

\* Number.prototype.toString() of an integer in 0..9
digitString(n) == Digits10[n + 1]

\* String.prototype.toUpperCase on the characters that survive cleaning
upperChar(c) == IF c = "k" THEN "K" ELSE c

toUpperCase(s) == [i \in 1..Len(s) |-> upperChar(s[i])]

\* the characters [0-9kK] that CLEAN_REGEX = /[^0-9kK]/g leaves in place
keptByCleanRegex(c) == isDigit(c) \/ c \in {"k", "K"}

\* s.replace(CLEAN_REGEX, "")
replaceCleanRegex(s) == SelectSeq(s, keptByCleanRegex)

\* s.replace(/\D/g, "")
stripNonDigits(s) == SelectSeq(s, isDigit)

\* DIGITS_ONLY_REGEX.test(s), /^\d+$/
digitsOnlyTest(s) == Len(s) >= 1 /\ \A i \in 1..Len(s) : isDigit(s[i])

\* s.slice(0, -1)
dropLast(s) == IF Len(s) = 0 THEN <<>> ELSE SubSeq(s, 1, Len(s) - 1)

\* s.slice(-1)
lastOf(s) == IF Len(s) = 0 THEN <<>> ELSE <<s[Len(s)]>>

(***************************************************************************)
(* cleanRut                                                                *)
(***************************************************************************)

\* cleanRut without the toUpperCase() at the end
cleanRut_keepCase(s) ==
  IF s = Null \/ s = <<>> THEN <<>>
  ELSE IF ~isString(s) THEN TypeError
  ELSE SelectSeq(s, keptByCleanRegex)

\* input.replace throws on a value that is neither null nor a string
cleanRut(s) ==
  IF s = Null \/ s = <<>> THEN <<>>
  ELSE IF ~isString(s) THEN TypeError
  ELSE toUpperCase(SelectSeq(s, keptByCleanRegex))

(***************************************************************************)
(* deconstructRut                                                          *)
(***************************************************************************)

\* deconstructRut with one rule changed: "noRule1" drops the K rule,
\* "split8" reads 8 digits as 7 digits and a check digit, "slice9" cuts two
\* characters off a 9-digit token
deconstructRutVariant(s, variant) ==
  LET raw == cleanRut(s)
      lastChar == lastOf(raw)
      isLastCharK == lastChar \in {<<"k">>, <<"K">>}
      length == Len(raw)
  IN  IF raw = TypeError THEN TypeError
      ELSE IF raw = <<>> THEN [digits |-> <<>>, verifier |-> <<>>]
      ELSE IF isLastCharK /\ variant # "noRule1"
        THEN [digits |-> dropLast(raw), verifier |-> <<"K">>]
      ELSE IF digitsOnlyTest(raw) /\ length = 9
        THEN [digits |-> IF variant = "slice9" THEN dropLast(dropLast(raw))
                         ELSE dropLast(raw),
              verifier |-> lastChar]
      ELSE IF digitsOnlyTest(raw) /\ length = 8
        THEN IF variant = "split8"
               THEN [digits |-> dropLast(raw), verifier |-> lastChar]
               ELSE [digits |-> raw, verifier |-> <<>>]
      ELSE IF digitsOnlyTest(raw) /\ length >= 6 /\ length <= 7
        THEN [digits |-> raw, verifier |-> <<>>]
      ELSE IF length > 1
        THEN [digits |-> replaceCleanRegex(dropLast(raw)),
              verifier |-> toUpperCase(lastChar)]
      ELSE [digits |-> replaceCleanRegex(raw), verifier |-> <<>>]

deconstructRut_noRule1(s) == deconstructRutVariant(s, "noRule1")

deconstructRut_split8(s) == deconstructRutVariant(s, "split8")

deconstructRut_slice9(s) == deconstructRutVariant(s, "slice9")

deconstructRut(s) ==
  LET raw == cleanRut(s)
      lastChar == lastOf(raw)
      isLastCharK == lastChar \in {<<"k">>, <<"K">>}
      length == Len(raw)
  IN  IF raw = TypeError THEN TypeError
      ELSE IF raw = <<>> THEN [digits |-> <<>>, verifier |-> <<>>]
      ELSE IF isLastCharK
        THEN [digits |-> dropLast(raw), verifier |-> <<"K">>]
      ELSE IF digitsOnlyTest(raw) /\ length = 9
        THEN [digits |-> dropLast(raw), verifier |-> lastChar]
      ELSE IF digitsOnlyTest(raw) /\ length = 8
        THEN [digits |-> raw, verifier |-> <<>>]
      ELSE IF digitsOnlyTest(raw) /\ length >= 6 /\ length <= 7
        THEN [digits |-> raw, verifier |-> <<>>]
      ELSE IF length > 1
        THEN [digits |-> replaceCleanRegex(dropLast(raw)),
              verifier |-> toUpperCase(lastChar)]
      ELSE [digits |-> replaceCleanRegex(raw), verifier |-> <<>>]

(***************************************************************************)
(* calculateRutVerifier: weighted modulo 11, memoised in dvCache           *)
(***************************************************************************)

FirstFactor == 2

LastFactor == 7

Modulus == 11

\* the factor never wraps back to 2
nextFactor_noWrap(factor) == factor + 1

\* factor = factor === 7 ? 2 : factor + 1
nextFactor(factor) == IF factor = LastFactor THEN FirstFactor ELSE factor + 1

\* the for loop of calculateRutVerifier, from index i down to the first digit
RECURSIVE weightedSum(_, _, _)
weightedSum(digits, i, factor) ==
  IF i < 1 THEN 0
  ELSE digitValue(digits[i]) * factor + weightedSum(digits, i - 1, nextFactor(factor))

\* the mapping of 11 - (sum % 11) to the check character
dvOfSum(sum) ==
  LET remainder == sum % Modulus
      dvNum == Modulus - remainder
  IN  IF dvNum = 11 THEN <<"0">>
      ELSE IF dvNum = 10 THEN <<"K">>
      ELSE <<digitString(dvNum)>>

\* a lookup that ignores the key and returns some entry of the cache
cacheGet_anyEntry(cache, key) == cache[CHOOSE k \in DOMAIN cache : TRUE]

\* dvCache.get(key) || null
cacheGet(cache, key) == IF cache[key] = <<>> THEN Null ELSE cache[key]

\* dvCache.set(key, value)
cacheSet(cache, key, value) ==
  [k \in DOMAIN cache \cup {key} |-> IF k = key THEN value ELSE cache[k]]

\* calculateRutVerifier returning "" where it has nothing to compute
calculateRutVerifier_emptyString(digitsInput, cache) ==
  IF digitsInput = Null \/ digitsInput = <<>>
    THEN [ret |-> <<>>, cache |-> cache]
  ELSE IF digitsInput \in DOMAIN cache
    THEN [ret |-> cacheGet(cache, digitsInput), cache |-> cache]
  ELSE IF ~isString(digitsInput) THEN [ret |-> TypeError, cache |-> cache]
  ELSE LET digits == stripNonDigits(digitsInput)
       IN  IF ~digitsOnlyTest(digits)
             THEN [ret |-> <<>>, cache |-> cache]
           ELSE LET result == dvOfSum(weightedSum(digits, Len(digits), FirstFactor))
                IN  [ret |-> result, cache |-> cacheSet(cache, digitsInput, result)]

\* The call's return value and the cache it leaves.
calculateRutVerifier(digitsInput, cache) ==
  IF digitsInput = Null \/ digitsInput = <<>>
    THEN [ret |-> Null, cache |-> cache]
  ELSE IF digitsInput \in DOMAIN cache
    THEN [ret |-> cacheGet(cache, digitsInput), cache |-> cache]
  ELSE IF ~isString(digitsInput) THEN [ret |-> TypeError, cache |-> cache]
  ELSE LET digits == stripNonDigits(digitsInput)
       IN  IF ~digitsOnlyTest(digits)
             THEN [ret |-> Null, cache |-> cache]
           ELSE LET result == dvOfSum(weightedSum(digits, Len(digits), FirstFactor))
                IN  [ret |-> result, cache |-> cacheSet(cache, digitsInput, result)]

(***************************************************************************)
(* isDigitsValid, validateRutFull                                          *)
(***************************************************************************)

MinDigits == 6

MaxDigits == 8

\* VALID_LENGTH_REGEX.test(s), /^\d{6,8}$/
validLengthTest(s) ==
  /\ Len(s) >= MinDigits
  /\ Len(s) <= MaxDigits
  /\ \A i \in 1..Len(s) : isDigit(s[i])

isDigitsValid(digitsInput) ==
  IF digitsInput = Null \/ digitsInput = <<>> THEN FALSE
  ELSE IF ~isString(digitsInput) THEN TypeError
  ELSE validLengthTest(stripNonDigits(digitsInput))

\* validateRutFull without the comparison of the check character
validateRutFull_anyCheck(fullRut, cache) ==
  IF ~isString(fullRut) \/ fullRut = <<>> THEN [ret |-> FALSE, cache |-> cache]
  ELSE LET d == deconstructRut(fullRut)
       IN  IF d.digits = <<>> \/ d.verifier = <<>>
             THEN [ret |-> FALSE, cache |-> cache]
           ELSE IF ~isDigitsValid(d.digits)
             THEN [ret |-> FALSE, cache |-> cache]
           ELSE LET e == calculateRutVerifier(d.digits, cache)
                IN  [ret |-> e.ret # Null, cache |-> e.cache]

validateRutFull(fullRut, cache) ==
  IF ~isString(fullRut) \/ fullRut = <<>> THEN [ret |-> FALSE, cache |-> cache]
  ELSE LET d == deconstructRut(fullRut)
       IN  IF d.digits = <<>> \/ d.verifier = <<>>
             THEN [ret |-> FALSE, cache |-> cache]
           ELSE IF ~isDigitsValid(d.digits)
             THEN [ret |-> FALSE, cache |-> cache]
           ELSE LET e == calculateRutVerifier(d.digits, cache)
                IN  [ret |-> e.ret # Null /\ e.ret = toUpperCase(d.verifier),
                     cache |-> e.cache]

(***************************************************************************)
(* formatRut, completeRut                                                  *)
(***************************************************************************)

RutFormats == {"dotdash", "dash", "nodash"}

PadWidth == 8

GroupSize == 3

\* s.padStart(8, "0")
RECURSIVE padStart(_)
padStart(s) == IF Len(s) >= PadWidth THEN s ELSE padStart(<<"0">> \o s)

\* the number of "0" characters s starts with
RECURSIVE leadingZeros(_)
leadingZeros(s) ==
  IF s = <<>> \/ s[1] # "0" THEN 0 ELSE 1 + leadingZeros(Tail(s))

\* s.replace(/^0+(?=\d)/, "") || "0": the longest run of leading zeros that
\* is followed by a digit is removed
stripLeadingZeros(s) ==
  LET z == leadingZeros(s)
      cut == IF z = 0 THEN 0
             ELSE IF z < Len(s) /\ isDigit(s[z + 1]) THEN z
             ELSE z - 1
      rest == SubSeq(s, cut + 1, Len(s))
  IN  IF rest = <<>> THEN <<"0">> ELSE rest

\* parts.join(".") of the while loop that cuts three characters off the right
RECURSIVE dotGroups(_)
dotGroups(temp) ==
  IF Len(temp) > GroupSize
    THEN dotGroups(SubSeq(temp, 1, Len(temp) - GroupSize))
           \o <<".">> \o SubSeq(temp, Len(temp) - GroupSize + 1, Len(temp))
  ELSE temp

\* the switch of formatRut
render(digitsOnly, verifier, format) ==
  CASE format = "nodash" -> digitsOnly \o verifier
    [] format = "dotdash" -> dotGroups(digitsOnly) \o <<"-">> \o verifier
    [] OTHER -> digitsOnly \o <<"-">> \o verifier

\* formatRut computing the check character of every valid body, supplied or not
formatRut_recompute(fullRut, format, cache) ==
  LET cleaned == cleanRut(fullRut)
      d == deconstructRut(cleaned)
      compute == isDigitsValid(d.digits)
      c == IF compute THEN calculateRutVerifier(d.digits, cache)
           ELSE [ret |-> Null, cache |-> cache]
      verifier == IF compute THEN (IF c.ret = Null THEN <<>> ELSE c.ret)
                  ELSE d.verifier
  IN  IF cleaned = TypeError THEN [ret |-> TypeError, cache |-> cache]
      ELSE IF cleaned = <<>> THEN [ret |-> <<>>, cache |-> cache]
      ELSE IF d.digits = <<>> THEN [ret |-> <<>>, cache |-> cache]
      ELSE IF verifier = <<>> THEN [ret |-> <<>>, cache |-> c.cache]
      ELSE [ret |-> render(stripLeadingZeros(padStart(d.digits)), verifier, format),
            cache |-> c.cache]

formatRut(fullRut, format, cache) ==
  LET cleaned == cleanRut(fullRut)
      d == deconstructRut(cleaned)
      compute == d.verifier = <<>> /\ isDigitsValid(d.digits)
      c == IF compute THEN calculateRutVerifier(d.digits, cache)
           ELSE [ret |-> Null, cache |-> cache]
      verifier == IF compute THEN (IF c.ret = Null THEN <<>> ELSE c.ret)
                  ELSE d.verifier
  IN  IF cleaned = TypeError THEN [ret |-> TypeError, cache |-> cache]
      ELSE IF cleaned = <<>> THEN [ret |-> <<>>, cache |-> cache]
      ELSE IF d.digits = <<>> THEN [ret |-> <<>>, cache |-> cache]
      ELSE IF verifier = <<>> THEN [ret |-> <<>>, cache |-> c.cache]
      ELSE [ret |-> render(stripLeadingZeros(padStart(d.digits)), verifier, format),
            cache |-> c.cache]

completeRut(digitsOnly, format, cache) ==
  LET cleaned == stripNonDigits(digitsOnly)
      v == calculateRutVerifier(cleaned, cache)
  IN  IF ~isString(digitsOnly) THEN [ret |-> TypeError, cache |-> cache]
      ELSE IF ~validLengthTest(cleaned) THEN [ret |-> Null, cache |-> cache]
      ELSE IF v.ret = Null THEN [ret |-> Null, cache |-> v.cache]
      ELSE formatRut(cleaned \o v.ret, format, v.cache)

(***************************************************************************)
(* isSuspiciousRut, validateRutDigitsOnly                                  *)
(***************************************************************************)

\* REPEATED_PATTERN_REGEX.test(s), /^(\d)\1+$/: a digit followed by one or
\* more copies of itself
repeatedPatternTest_oneOrMore(s) ==
  /\ Len(s) >= 1
  /\ isDigit(s[1])
  /\ \A i \in 1..Len(s) : s[i] = s[1]

repeatedPatternTest(s) ==
  /\ Len(s) >= 2
  /\ isDigit(s[1])
  /\ \A i \in 2..Len(s) : s[i] = s[1]

isSuspiciousRut(digitsInput) ==
  IF ~isString(digitsInput) THEN TypeError
  ELSE LET digits == stripNonDigits(digitsInput)
       IN  IF digits = <<>> THEN TRUE
           ELSE repeatedPatternTest(digits)

\* validateRutDigitsOnly without the rejection of repeated digits
validateRutDigitsOnly_shapeOnly(digits) ==
  IF ~isString(digits) THEN TypeError
  ELSE isDigitsValid(stripNonDigits(digits))

validateRutDigitsOnly(digits) ==
  IF ~isString(digits) THEN TypeError
  ELSE LET cleaned == stripNonDigits(digits)
       IN  isDigitsValid(cleaned) /\ ~isSuspiciousRut(cleaned)

(***************************************************************************)
(* normalizeRut, compareRuts                                               *)
(***************************************************************************)

\* cleanRut throws on a non-string that is not null: it calls input.replace
normalizeRut(s, format, cache) ==
  IF s = Null \/ s = <<>> THEN [ret |-> <<>>, cache |-> cache]
  ELSE IF ~isString(s) THEN [ret |-> TypeError, cache |-> cache]
  ELSE LET cleaned == cleanRut(s)
       IN  IF cleaned = <<>> THEN [ret |-> <<>>, cache |-> cache]
           ELSE IF Len(cleaned) < 7 THEN [ret |-> cleaned, cache |-> cache]
           ELSE formatRut(cleaned, format, cache)

\* compareRuts formatting both arguments, whatever their length
compareRuts_formatBoth(rut1, rut2, cache) ==
  LET normalized1 == formatRut(rut1, "nodash", cache)
      normalized2 == formatRut(rut2, "nodash", normalized1.cache)
  IN  IF normalized1.ret = <<>> \/ normalized2.ret = <<>>
        THEN [ret |-> FALSE, cache |-> normalized2.cache]
      ELSE [ret |-> normalized1.ret = normalized2.ret, cache |-> normalized2.cache]

compareRuts(rut1, rut2, cache) ==
  LET normalized1 == normalizeRut(rut1, "nodash", cache)
      normalized2 == normalizeRut(rut2, "nodash", normalized1.cache)
  IN  IF normalized1.ret = TypeError THEN [ret |-> TypeError, cache |-> cache]
      ELSE IF normalized2.ret = TypeError
        THEN [ret |-> TypeError, cache |-> normalized1.cache]
      ELSE IF normalized1.ret = <<>> \/ normalized2.ret = <<>>
        THEN [ret |-> FALSE, cache |-> normalized2.cache]
      ELSE [ret |-> normalized1.ret = normalized2.ret, cache |-> normalized2.cache]

(***************************************************************************)
(* maskRutInput                                                            *)
(***************************************************************************)

\* s.split("").reverse().join("")
reverse(s) == [i \in 1..Len(s) |-> s[Len(s) + 1 - i]]

\* r.replace(/(\d{3})(?=\d)/g, "$1.") from index i on: three digits that are
\* followed by a digit get a dot after them, and the scan resumes after the
\* three; anywhere else the scan moves on by one character
RECURSIVE replaceThreeDigits(_, _)
replaceThreeDigits(r, i) ==
  IF i > Len(r) THEN <<>>
  ELSE IF i + GroupSize <= Len(r) /\ \A k \in i..(i + GroupSize) : isDigit(r[k])
    THEN SubSeq(r, i, i + GroupSize - 1) \o <<".">>
           \o replaceThreeDigits(r, i + GroupSize)
  ELSE <<r[i]>> \o replaceThreeDigits(r, i + 1)

\* the reverse / replace / reverse chain that puts the dots
formattedDigits(digits) == reverse(replaceThreeDigits(reverse(digits), 1))

\* maskRutInput putting the dash in front of the last character of a token of
\* 8 characters already
maskRutInput_dashAt8(value) ==
  LET cleaned == cleanRut(value)
      length == Len(cleaned)
  IN  IF ~isString(value) /\ value # Null THEN TypeError
      ELSE IF length <= 1 THEN cleaned
      ELSE IF lastOf(cleaned) = <<"K">>
        THEN formattedDigits(dropLast(cleaned)) \o <<"-", "K">>
      ELSE IF length >= 8
        THEN formattedDigits(dropLast(cleaned)) \o <<"-">> \o lastOf(cleaned)
      ELSE formattedDigits(cleaned)

maskRutInput(value) ==
  LET cleaned == cleanRut(value)
      length == Len(cleaned)
      lastChar == lastOf(cleaned)
      endsWithK == lastChar \in {<<"k">>, <<"K">>}
      isExactlyEightDigits == length = 8 /\ digitsOnlyTest(cleaned)
      verifier == IF length >= 9 THEN lastChar ELSE <<>>
      digits == IF length >= 9 THEN dropLast(cleaned) ELSE cleaned
  IN  IF ~isString(value) /\ value # Null THEN TypeError
      ELSE IF cleaned = <<>> THEN <<>>
      ELSE IF length <= 1 THEN cleaned
      ELSE IF endsWithK
        THEN formattedDigits(dropLast(cleaned)) \o <<"-">> \o <<"K">>
      ELSE IF isExactlyEightDigits THEN dotGroups(cleaned)
      ELSE IF verifier # <<>> /\ isDigit(verifier[1])
        THEN formattedDigits(digits) \o <<"-">> \o verifier
      ELSE formattedDigits(digits)

(***************************************************************************)
(* hasRutStructure, generateRandomRut                                      *)
(***************************************************************************)

\* hasRutStructure counting the characters of the sanitized token
hasRutStructure_cleanedLength(s) ==
  IF s = Null \/ s = <<>> THEN FALSE
  ELSE IF ~isString(s) THEN TypeError
  ELSE Len(cleanRut(s)) >= 3

hasRutStructure(s) ==
  IF s = Null \/ s = <<>> THEN FALSE
  ELSE IF ~isString(s) THEN TypeError
  ELSE LET cleaned == cleanRut(s)
       IN  IF Len(cleaned) < 3 THEN FALSE
           ELSE Len(stripNonDigits(cleaned)) >= 3

(***************************************************************************)
(* The caller's inputs                                                     *)
(***************************************************************************)

MaxFill == 9

MaxOffset == 1

MaxCalls == 2

\* the digits inputs are filled with, read cyclically
PatternDigits == <<"1", "2", "3", "4", "5", "6", "7", "8", "9", "0">>

\* n digits of the pattern, starting k places in
Pattern(k, n) == [i \in 1..n |-> PatternDigits[((k + i - 1) % Len(PatternDigits)) + 1]]

Zeros(n) == [i \in 1..n |-> "0"]

\* the check characters a user can type
TypedChecks == DigitChars \cup {"K", "k"}

\* a body and a check character as the formatted layout shows them
Dotted(body, check) == dotGroups(body) \o <<"-">> \o check

\* General inputs: a head, a run of digits and a tail, typed bare or with
\* dots and a dash.  They cover every length from 0 to MaxFill + 3, the letter
\* K in first, inner and last position, and leading zeros.
Heads == {<<>>, <<"0">>, <<"K">>, <<"1", "K">>}

Tails == {<<>>, <<"5">>, <<"K">>, <<"k">>}

Tokens == {h \o Pattern(0, n) \o t : h \in Heads, t \in Tails, n \in 0..MaxFill}

Inputs == Tokens \cup {Dotted(dropLast(t), lastOf(t)) : t \in Tokens}

\* RUT inputs: a body of 6, 7 or 8 digits (with and without leading zeros, or
\* all zeros), alone or followed by any check character, bare or formatted.
\* the bodies generateRandomRut draws from
validRuts ==
  << <<"1", "2", "3", "4", "5", "6", "7", "8">>,
     <<"1", "1", "1", "1", "1", "1", "1", "1">>,
     <<"8", "7", "6", "5", "4", "3", "2", "1">>,
     <<"8", "0", "0", "0", "0", "0">>,
     <<"2", "4", "9", "6", "5", "1", "0", "6">> >>

Bodies ==
  {Pattern(k, n) : n \in MinDigits..MaxDigits, k \in 0..MaxOffset}
  \cup {Zeros(1) \o Pattern(0, n - 1) : n \in MinDigits..MaxDigits}
  \cup {Zeros(n) : n \in MinDigits..MaxDigits}
  \cup {validRuts[i] : i \in 1..Len(validRuts)}

RutInputs ==
  Bodies
  \cup {b \o <<c>> : b \in Bodies, c \in TypedChecks}
  \cup {Dotted(b, <<c>>) : b \in Bodies, c \in TypedChecks}

\* generateRandomRut returning the chosen body as it is listed
generateRandomRut_unformatted(format, randomIndex, cache) ==
  [ret |-> validRuts[randomIndex + 1], cache |-> cache]

\* validRuts[Math.floor(Math.random() * validRuts.length)], formatted
generateRandomRut(format, randomIndex, cache) ==
  formatRut(validRuts[randomIndex + 1], format, cache)

(***************************************************************************)
(* The state machine: one action per library function                      *)
(***************************************************************************)

NoFormat == "none"

\* the empty Map
EmptyCache == [k \in {} |-> <<>>]

Init ==
  /\ input \in Inputs
  /\ calls = <<>>
  /\ dvCache = EmptyCache

InitRut ==
  /\ input \in RutInputs
  /\ calls = <<>>
  /\ dvCache = EmptyCache

\* the operations whose string result a caller passes on
StringOps == {"formatRut", "completeRut", "normalizeRut", "maskRutInput",
              "generateRandomRut", "cleanRut"}

\* what the caller can pass: its input, or a string an earlier call returned
Args ==
  {input} \cup {calls[i].ret : i \in {j \in 1..Len(calls) :
                                        /\ calls[j].op \in StringOps
                                        /\ calls[j].ret # Null
                                        /\ calls[j].ret # TypeError}}

Call(op, arg, format, ret) ==
  calls' = Append(calls, [op |-> op, arg |-> arg, format |-> format, ret |-> ret])

CanCall == Len(calls) < MaxCalls

deconstructRutCall ==
  /\ CanCall
  /\ \E arg \in Args : Call("deconstructRut", arg, NoFormat, deconstructRut(arg))
  /\ UNCHANGED <<input, dvCache>>

calculateRutVerifierCall ==
  /\ CanCall
  /\ \E arg \in Args :
       LET r == calculateRutVerifier(arg, dvCache)
       IN  /\ Call("calculateRutVerifier", arg, NoFormat, r.ret)
           /\ dvCache' = r.cache
  /\ UNCHANGED input

validateRutFullCall ==
  /\ CanCall
  /\ \E arg \in Args :
       LET r == validateRutFull(arg, dvCache)
       IN  /\ Call("validateRutFull", arg, NoFormat, r.ret)
           /\ dvCache' = r.cache
  /\ UNCHANGED input

formatRutCall ==
  /\ CanCall
  /\ \E arg \in Args, format \in RutFormats :
       LET r == formatRut(arg, format, dvCache)
       IN  /\ Call("formatRut", arg, format, r.ret)
           /\ dvCache' = r.cache
  /\ UNCHANGED input

completeRutCall ==
  /\ CanCall
  /\ \E arg \in Args, format \in RutFormats :
       LET r == completeRut(arg, format, dvCache)
       IN  /\ Call("completeRut", arg, format, r.ret)
           /\ dvCache' = r.cache
  /\ UNCHANGED input

\* clearCache returns nothing
clearCache ==
  /\ CanCall
  /\ Call("clearCache", <<>>, NoFormat, Null)
  /\ dvCache' = EmptyCache
  /\ UNCHANGED input

Next ==
  \/ deconstructRutCall
  \/ calculateRutVerifierCall
  \/ validateRutFullCall
  \/ formatRutCall
  \/ completeRutCall
  \/ clearCache

\* a caller with any input
Spec == Init /\ [][Next]_vars

\* a caller whose input is a body of 6 to 8 digits, with or without a check
\* character
SpecRut == InitRut /\ [][Next]_vars

(***************************************************************************)
(* Reference definitions the claims are stated with                        *)
(***************************************************************************)

CallIdx == 1..Len(calls)

\* a body of 6, 7 or 8 decimal digits
IsRutBody(s) == Len(s) \in {6, 7, 8} /\ \A i \in 1..Len(s) : s[i] \in DigitChars

\* the decimal digits of s, in order
RefDigits(s) == SelectSeq(s, LAMBDA c : c \in DigitChars)

\* the multiplier of the digit p places from the right: 2,3,4,5,6,7,2,3,...
RefWeight(p) == 2 + (p % 6)

RECURSIVE RefSum(_, _)
RefSum(ds, i) ==
  IF i > Len(ds) THEN 0
  ELSE digitValue(ds[i]) * RefWeight(Len(ds) - i) + RefSum(ds, i + 1)

\* the modulo 11 check character of the digits of s
RefCheck(s) ==
  LET raw == 11 - (RefSum(RefDigits(s), 1) % 11)
  IN  IF raw = 11 THEN <<"0">> ELSE IF raw = 10 THEN <<"K">> ELSE <<Digits10[raw + 1]>>

(***************************************************************************)
(* C1  Format-then-validate round trip                                     *)
(***************************************************************************)

\* C1: for every body b of 6, 7 or 8 digits and every format f,
\* validateRutFull(formatRut(b, f)) is true.
C1_FormatThenValidate ==
  \A i \in CallIdx : \A j \in CallIdx :
    ( /\ IsRutBody(input)
      /\ j = i + 1
      /\ calls[i].op = "formatRut"
      /\ calls[i].arg = input
      /\ calls[j].op = "validateRutFull"
      /\ calls[j].arg = calls[i].ret )
    => calls[j].ret = TRUE

(***************************************************************************)
(* C2  validateRutFull never accepts a wrong check character               *)
(***************************************************************************)

\* the call's argument is a body of 6 to 8 digits followed by a check character
\* that is not the body's
WrongCheckCall(i) ==
  /\ calls[i].op = "validateRutFull"
  /\ LET t == cleanRut(calls[i].arg)
     IN  /\ Len(t) >= 7
         /\ IsRutBody(dropLast(t))
         /\ lastOf(t) # RefCheck(dropLast(t))

\* C2: validateRutFull of a body of 6 to 8 digits followed by a check
\* character other than the body's, typed with or without dots and a dash, in
\* either case of the letter K, is false.
C2_WrongCheckRejected ==
  \A i \in CallIdx : WrongCheckCall(i) => calls[i].ret = FALSE

\* a formatted 8-digit body with a wrong check digit has been rejected
C2_Witness ==
  \E i \in CallIdx :
    /\ WrongCheckCall(i)
    /\ calls[i].arg = input
    /\ Len(input) = 12
    /\ input[12] \in DigitChars
    /\ calls[i].ret = FALSE

(***************************************************************************)
(* C3  deconstructRut on digits only branches on the length                *)
(***************************************************************************)

DigitTokenCall(i, n) ==
  /\ calls[i].op = "deconstructRut"
  /\ Len(cleanRut(calls[i].arg)) = n
  /\ \A k \in 1..n : cleanRut(calls[i].arg)[k] \in DigitChars

\* C3: on a sanitized token of digits only, 9 digits give the first 8 as body
\* and the 9th as check; 8, 7 or 6 digits give the whole token as body and an
\* empty check.
C3_DigitsByLength ==
  \A i \in CallIdx :
    LET t == cleanRut(calls[i].arg)
    IN  /\ DigitTokenCall(i, 9) =>
             calls[i].ret = [digits |-> SubSeq(t, 1, 8), verifier |-> <<t[9]>>]
        /\ \A n \in {6, 7, 8} :
             DigitTokenCall(i, n) => calls[i].ret = [digits |-> t, verifier |-> <<>>]

\* an 8-digit token has been decomposed into itself and an empty check
C3_Witness ==
  \E i \in CallIdx :
    /\ DigitTokenCall(i, 8)
    /\ calls[i].ret = [digits |-> cleanRut(calls[i].arg), verifier |-> <<>>]

(***************************************************************************)
(* C4  The K rule of deconstructRut comes first                            *)
(***************************************************************************)

KTokenCall(i) ==
  /\ calls[i].op = "deconstructRut"
  /\ cleanRut(calls[i].arg) # <<>>
  /\ lastOf(cleanRut(calls[i].arg)) = <<"K">>

\* C4: whenever the sanitized token ends in K (typed k or K), whatever its
\* length, the body is the token without its last character and the check is K.
C4_KRuleFirst ==
  \A i \in CallIdx :
    KTokenCall(i) =>
      calls[i].ret = [digits |-> dropLast(cleanRut(calls[i].arg)),
                      verifier |-> <<"K">>]

\* the one-character token k has been decomposed into an empty body and K
C4_Witness ==
  \E i \in CallIdx :
    /\ KTokenCall(i)
    /\ calls[i].arg = <<"k">>
    /\ calls[i].ret = [digits |-> <<>>, verifier |-> <<"K">>]

(***************************************************************************)
(* C5  The shape of a decomposed RUT                                       *)
(***************************************************************************)

\* C5: for every input, deconstructRut returns a body of decimal digits only
\* and a check that is empty, one decimal digit or K.
C5_DecomposedShape ==
  \A i \in CallIdx :
    calls[i].op = "deconstructRut" =>
      /\ \A k \in 1..Len(calls[i].ret.digits) : calls[i].ret.digits[k] \in DigitChars
      /\ calls[i].ret.verifier \in {<<>>} \cup {<<c>> : c \in DigitChars \cup {"K"}}

(***************************************************************************)
(* C6  calculateRutVerifier is weighted modulo 11                          *)
(***************************************************************************)

HasDigit(s) == \E k \in 1..Len(s) : s[k] \in DigitChars

\* C6: for every input with at least one decimal digit, calculateRutVerifier
\* returns the modulo 11 check character of the input's digits (multipliers
\* 2,3,4,5,6,7,2,... from the right; 11 gives 0, 10 gives K), which is one
\* character of 0..9 or K, and every call with the same input returns the same.
C6_WeightedModulo11 ==
  \A i \in CallIdx :
    (calls[i].op = "calculateRutVerifier" /\ HasDigit(calls[i].arg)) =>
      /\ calls[i].ret = RefCheck(calls[i].arg)
      /\ calls[i].ret \in {<<c>> : c \in DigitChars \cup {"K"}}
      /\ \A j \in CallIdx :
           (calls[j].op = "calculateRutVerifier" /\ calls[j].arg = calls[i].arg)
             => calls[j].ret = calls[i].ret

\* the check character of an input of at least 7 digits and some other
\* characters has been computed twice
C6_Witness ==
  /\ Len(calls) = 2
  /\ calls[1].op = "calculateRutVerifier"
  /\ calls[2].op = "calculateRutVerifier"
  /\ calls[1].arg = input
  /\ calls[2].arg = input
  /\ Len(RefDigits(input)) >= 7
  /\ Len(RefDigits(input)) < Len(input)
  /\ calls[2].ret = RefCheck(input)

(***************************************************************************)
(* C7  formatRut keeps a supplied check character                          *)
(***************************************************************************)

\* call i decomposes and call j formats the same string
DeconstructFormatPair(i, j) ==
  /\ calls[i].op = "deconstructRut"
  /\ calls[j].op = "formatRut"
  /\ calls[i].arg = calls[j].arg

\* C7: formatRut renders the check deconstructRut finds, computes the check of
\* a body of 6 to 8 digits that has none, and returns the empty string when
\* the body is empty or has no check and is not 6 to 8 digits.
C7_FormatKeepsCheck ==
  \A i \in CallIdx : \A j \in CallIdx :
    DeconstructFormatPair(i, j) =>
      LET d == calls[i].ret
          r == calls[j].ret
      IN  /\ (d.digits # <<>> /\ d.verifier # <<>>) =>
                (r # <<>> /\ lastOf(r) = d.verifier)
          /\ (d.verifier = <<>> /\ IsRutBody(d.digits)) =>
                (r # <<>> /\ lastOf(r) = RefCheck(d.digits))
          /\ (d.digits = <<>> \/ (d.verifier = <<>> /\ ~IsRutBody(d.digits))) =>
                r = <<>>

\* a body of 6 to 8 digits has been formatted with a supplied check character
\* that is not the body's
C7_Witness ==
  \E i \in CallIdx : \E j \in CallIdx :
    /\ DeconstructFormatPair(i, j)
    /\ IsRutBody(calls[i].ret.digits)
    /\ calls[i].ret.verifier # <<>>
    /\ calls[i].ret.verifier # RefCheck(calls[i].ret.digits)
    /\ lastOf(calls[j].ret) = calls[i].ret.verifier

(***************************************************************************)
(* C8  Re-formatting is stable                                             *)
(***************************************************************************)

\* call i formats the input in format f and call j, the next one, formats
\* the result in format g
ReformatPair(i, j, f, g) ==
  /\ j = i + 1
  /\ calls[i].op = "formatRut"
  /\ calls[i].arg = input
  /\ calls[i].format = f
  /\ calls[j].op = "formatRut"
  /\ calls[j].arg = calls[i].ret
  /\ calls[j].format = g

\* C8: for every input x, formatRut(formatRut(x, dotdash), dash) equals
\* formatRut(x, dash).
C8_ReformatStable ==
  \A i \in CallIdx : \A j \in CallIdx :
    ReformatPair(i, j, "dotdash", "dash") =>
      calls[j].ret = formatRut(input, "dash", EmptyCache).ret

(***************************************************************************)
(* C9  deconstructRut on the nodash layout                                 *)
(***************************************************************************)

\* call i renders the input, whose body is not empty, in the nodash layout
\* and call j, the next one, decomposes the non-empty result
RenderDecomposePair(i, j) ==
  /\ j = i + 1
  /\ calls[i].op = "formatRut"
  /\ calls[i].arg = input
  /\ calls[i].format = "nodash"
  /\ calls[i].ret # <<>>
  /\ deconstructRut(input).digits # <<>>
  /\ calls[j].op = "deconstructRut"
  /\ calls[j].arg = calls[i].ret

\* C9 as claimed: for every input x with a non-empty body and a non-empty
\* nodash rendering, deconstructRut(formatRut(x, nodash)) = deconstructRut(x).
C9_DecomposeIdempotent ==
  \A i \in CallIdx : \A j \in CallIdx :
    RenderDecomposePair(i, j) => calls[j].ret = deconstructRut(input)

\* the nodash rendering is the decomposed body followed by the decomposed
\* check: the input carries its check character and no leading zero is
\* stripped from or added to the body
RenderedAsDecomposed(i) ==
  calls[i].ret = deconstructRut(input).digits \o deconstructRut(input).verifier

\* C9 as amended: deconstructRut(formatRut(x, nodash)) = deconstructRut(x) for
\* every input x whose nodash rendering is exactly its decomposed body
\* followed by its decomposed check.
C9_DecomposeIdempotentAmended ==
  \A i \in CallIdx : \A j \in CallIdx :
    (RenderDecomposePair(i, j) /\ RenderedAsDecomposed(i))
      => calls[j].ret = deconstructRut(input)

\* a formatted 8-digit RUT has been rendered and decomposed again
C9_Witness ==
  /\ Len(calls) = 2
  /\ RenderDecomposePair(1, 2)
  /\ RenderedAsDecomposed(1)
  /\ Len(input) > Len(calls[1].ret)
  /\ Len(calls[2].ret.digits) = 8
  /\ calls[2].ret.verifier # <<>>

(***************************************************************************)
(* C10  completeRut appends the check character of its body                *)
(***************************************************************************)

\* C10: for every body b of 6 to 8 digits and every format f, completeRut(b, f)
\* is b without its leading zeros rendered in f with the check character of
\* b, and validateRutFull accepts it.
C10_CompleteAppendsCheck ==
  \A i \in CallIdx :
    (calls[i].op = "completeRut" /\ calls[i].arg = input /\ IsRutBody(input)) =>
      /\ calls[i].ret = render(stripLeadingZeros(input), RefCheck(input),
                               calls[i].format)
      /\ \A j \in CallIdx :
           ( /\ j = i + 1
             /\ calls[j].op = "validateRutFull"
             /\ calls[j].arg = calls[i].ret ) => calls[j].ret = TRUE

(***************************************************************************)
(* The predicates: a caller that may hold anything, a string or not        *)
(***************************************************************************)

\* c.repeat(n)
Repeat(c, n) == [i \in 1..n |-> c]

\* the bodies of 6 to 8 identical digits
RepeatedBodies == {Repeat(d, n) : d \in DigitChars, n \in MinDigits..MaxDigits}

\* a body written with the check character calculateRutVerifier gives it
WithCheck(b) == b \o calculateRutVerifier(b, EmptyCache).ret

PredicateInputs ==
  Inputs
    \cup {Null, NonString}
    \cup {Repeat(c, n) : c \in DigitChars \cup {"K"}, n \in 1..MaxFill}
    \cup {WithCheck(b) : b \in RepeatedBodies}

InitPredicates ==
  /\ input \in PredicateInputs
  /\ calls = <<>>
  /\ dvCache = EmptyCache

\* other spellings a caller compares a string with: the sanitized token, with
\* a leading zero, without its last character, with a check character added,
\* and the values that are no strings
Counterparts(s) ==
  LET cleaned == IF isString(s) THEN cleanRut(s) ELSE <<>>
      v == calculateRutVerifier(cleaned, EmptyCache).ret
  IN  {s, cleaned, <<"0">> \o cleaned, dropLast(cleaned), Null, NonString}
        \cup (IF v = Null THEN {} ELSE {cleaned \o v})

Call2(op, arg, arg2, ret) ==
  calls' = Append(calls, [op |-> op, arg |-> arg, arg2 |-> arg2,
                          format |-> NoFormat, ret |-> ret])

isDigitsValidCall ==
  /\ CanCall
  /\ \E arg \in Args : Call("isDigitsValid", arg, NoFormat, isDigitsValid(arg))
  /\ UNCHANGED <<input, dvCache>>

isSuspiciousRutCall ==
  /\ CanCall
  /\ \E arg \in Args : Call("isSuspiciousRut", arg, NoFormat, isSuspiciousRut(arg))
  /\ UNCHANGED <<input, dvCache>>

validateRutDigitsOnlyCall ==
  /\ CanCall
  /\ \E arg \in Args :
       Call("validateRutDigitsOnly", arg, NoFormat, validateRutDigitsOnly(arg))
  /\ UNCHANGED <<input, dvCache>>

hasRutStructureCall ==
  /\ CanCall
  /\ \E arg \in Args : Call("hasRutStructure", arg, NoFormat, hasRutStructure(arg))
  /\ UNCHANGED <<input, dvCache>>

compareRutsCall ==
  /\ CanCall
  /\ \E rut1 \in Args :
       \E rut2 \in Counterparts(rut1) :
         LET r == compareRuts(rut1, rut2, dvCache)
         IN  /\ Call2("compareRuts", rut1, rut2, r.ret)
             /\ dvCache' = r.cache
  /\ UNCHANGED input

NextPredicates ==
  \/ isDigitsValidCall
  \/ isSuspiciousRutCall
  \/ validateRutDigitsOnlyCall
  \/ validateRutFullCall
  \/ hasRutStructureCall
  \/ compareRutsCall

SpecPredicates == InitPredicates /\ [][NextPredicates]_vars

\* a string argument
IsText(x) == x # Null /\ x # NonString

(***************************************************************************)
(* C11  compareRuts against equality of the nodash renderings              *)
(***************************************************************************)

\* the nodash rendering, computed with an empty cache
Nodash(x) == formatRut(x, "nodash", EmptyCache).ret

\* C11: compareRuts(a, b) is true exactly when formatRut(a, nodash) and
\* formatRut(b, nodash) are both non-empty and equal, for all strings a and b.
C11_CompareIsFormatEquality ==
  \A i \in CallIdx :
    (/\ calls[i].op = "compareRuts"
     /\ IsText(calls[i].arg)
     /\ IsText(calls[i].arg2))
      => (calls[i].ret = TRUE
            <=> (/\ Nodash(calls[i].arg) # <<>>
                 /\ Nodash(calls[i].arg2) # <<>>
                 /\ Nodash(calls[i].arg) = Nodash(calls[i].arg2)))

(***************************************************************************)
(* The cache: a caller that computes check characters again and again      *)
(***************************************************************************)

MaxMemoCalls == 4

\* formatted RUTs, with a right and with a wrong check character
MemoInputs == {Dotted(b, <<c>>) : b \in Bodies, c \in {"5", "K"}}

InitMemo ==
  /\ input \in MemoInputs
  /\ calls = <<>>
  /\ dvCache = EmptyCache

\* the strings the caller asks the check character of: its input as typed,
\* sanitized, its body, its body without the last digit, and no string
MemoKeys ==
  {input, cleanRut(input), deconstructRut(input).digits,
   dropLast(deconstructRut(input).digits), <<"-">>, Null}

calculateRutVerifierSession ==
  /\ Len(calls) < MaxMemoCalls
  /\ \E arg \in MemoKeys :
       LET r == calculateRutVerifier(arg, dvCache)
       IN  /\ Call("calculateRutVerifier", arg, NoFormat, r.ret)
           /\ dvCache' = r.cache
  /\ UNCHANGED input

clearCacheSession ==
  /\ Len(calls) < MaxMemoCalls
  /\ Call("clearCache", <<>>, NoFormat, Null)
  /\ dvCache' = EmptyCache
  /\ UNCHANGED input

NextMemo ==
  \/ calculateRutVerifierSession
  \/ clearCacheSession

SpecMemo == InitMemo /\ [][NextMemo]_vars

(***************************************************************************)
(* C12  The cache is invisible                                             *)
(***************************************************************************)

\* what calculateRutVerifier returns without a cache
MemoFree(x) == IF x = Null \/ ~HasDigit(x) THEN Null ELSE RefCheck(x)

\* C12: after any sequence of calculateRutVerifier and clearCache calls,
\* every calculateRutVerifier(x) call returned what the function returns
\* without a cache, every clearCache call returned without an error, and the
\* cache only holds what the function computes.
C12_CacheInvisible ==
  /\ \A i \in CallIdx :
       /\ calls[i].op = "calculateRutVerifier" => calls[i].ret = MemoFree(calls[i].arg)
       /\ calls[i].op = "clearCache" => calls[i].ret = Null
  /\ \A k \in DOMAIN dvCache : dvCache[k] = MemoFree(k)

\* a call is answered from the cache, the cache holding two keys with
\* different check characters, after a clearCache on the empty cache
C12_Witness ==
  /\ Len(calls) = 4
  /\ calls[1].op = "clearCache"
  /\ calls[2].op = "calculateRutVerifier"
  /\ calls[3].op = "calculateRutVerifier"
  /\ calls[4].op = "calculateRutVerifier"
  /\ calls[4].arg = calls[2].arg
  /\ calls[3].ret # Null
  /\ calls[2].ret # Null
  /\ calls[3].ret # calls[2].ret
  /\ Cardinality(DOMAIN dvCache) = 2

(***************************************************************************)
(* C13  The predicates on arguments that are no strings                    *)
(***************************************************************************)

Predicates ==
  {"isDigitsValid", "isSuspiciousRut", "validateRutDigitsOnly",
   "validateRutFull", "hasRutStructure", "compareRuts"}

\* the call was given null, undefined or a value that is no string
NonStringCall(i) ==
  /\ calls[i].op \in Predicates
  /\ \/ ~IsText(calls[i].arg)
     \/ calls[i].op = "compareRuts" /\ ~IsText(calls[i].arg2)

\* the call returned false; the outcome of a call that threw is no boolean, so
\* the outcome is compared as text
ReturnedFalse(i) == ToString(calls[i].ret) = ToString(FALSE)

\* C13: isDigitsValid, isSuspiciousRut, validateRutDigitsOnly,
\* validateRutFull, hasRutStructure and compareRuts return false, and throw
\* nothing, when an argument is absent or is no string.
C13_PredicatesNeverThrow ==
  \A i \in CallIdx : NonStringCall(i) => ReturnedFalse(i)

(***************************************************************************)
(* C14  Repeated digits: rejected without, accepted with a check character *)
(***************************************************************************)

\* C14: for every body b of 6, 7 or 8 identical digits,
\* validateRutDigitsOnly(b) is false and validateRutFull of b followed by its
\* modulo 11 check character is true.
C14_RepeatedBodyAsymmetry ==
  \A i \in CallIdx :
    /\ (calls[i].op = "validateRutDigitsOnly" /\ calls[i].arg \in RepeatedBodies)
         => calls[i].ret = FALSE
    /\ (/\ calls[i].op = "validateRutFull"
        /\ \E b \in RepeatedBodies : calls[i].arg = b \o RefCheck(b))
         => calls[i].ret = TRUE

(***************************************************************************)
(* C15  isSuspiciousRut                                                    *)
(***************************************************************************)

\* no two digits of s differ
AllDigitsIdentical(s) ==
  LET ds == RefDigits(s)
  IN  \A j, k \in 1..Len(ds) : ds[j] = ds[k]

\* C15: isSuspiciousRut(s) is true exactly when s has no digit or all its
\* digits are identical, whatever the number of digits, a single one included.
C15_SuspiciousIffIdentical ==
  \A i \in CallIdx :
    (calls[i].op = "isSuspiciousRut" /\ IsText(calls[i].arg))
      => (calls[i].ret = TRUE <=> AllDigitsIdentical(calls[i].arg))

\* C15 as the code has it: isSuspiciousRut(s) is true exactly when s has no
\* digit, or has two or more digits that are all identical; a string with a
\* single digit is not suspicious.
C15_SuspiciousIffRepeated ==
  \A i \in CallIdx :
    (calls[i].op = "isSuspiciousRut" /\ IsText(calls[i].arg))
      => (calls[i].ret = TRUE
            <=> (/\ AllDigitsIdentical(calls[i].arg)
                 /\ Len(RefDigits(calls[i].arg)) # 1))

\* isSuspiciousRut answered false for a string with one digit among other
\* characters
C15_Witness ==
  \E i \in CallIdx :
    /\ calls[i].op = "isSuspiciousRut"
    /\ IsText(calls[i].arg)
    /\ Len(RefDigits(calls[i].arg)) = 1
    /\ Len(calls[i].arg) > 1
    /\ calls[i].ret = FALSE

(***************************************************************************)
(* The input field: a caller that masks and normalizes what is typed       *)
(***************************************************************************)

maskRutInputCall ==
  /\ CanCall
  /\ \E arg \in Args : Call("maskRutInput", arg, NoFormat, maskRutInput(arg))
  /\ UNCHANGED <<input, dvCache>>

normalizeRutCall ==
  /\ CanCall
  /\ \E arg \in Args, format \in RutFormats :
       LET r == normalizeRut(arg, format, dvCache)
       IN  /\ Call("normalizeRut", arg, format, r.ret)
           /\ dvCache' = r.cache
  /\ UNCHANGED input

NextMask ==
  \/ maskRutInputCall
  \/ normalizeRutCall

SpecMask == Init /\ [][NextMask]_vars

(***************************************************************************)
(* C16  The rule table of maskRutInput                                     *)
(***************************************************************************)

\* the sanitized token: the digits and the letters K of s, upper-case
RefToken(s) ==
  LET kept == SelectSeq(s, LAMBDA c : c \in DigitChars \cup {"k", "K"})
  IN  [i \in 1..Len(kept) |-> IF kept[i] = "k" THEN "K" ELSE kept[i]]

\* the number of digits in a row from position i of s on
RECURSIVE DigitsFrom(_, _)
DigitsFrom(s, i) ==
  IF i > Len(s) \/ s[i] \notin DigitChars THEN 0 ELSE 1 + DigitsFrom(s, i + 1)

\* s with its digits in clusters of three, aligned to the right and
\* separated by ".": a dot goes between two digits when the digits from the
\* second one to the end of its run are a multiple of three
RECURSIVE DotGroupedFrom(_, _)
DotGroupedFrom(s, i) ==
  IF i > Len(s) THEN <<>>
  ELSE (IF /\ i > 1
           /\ s[i - 1] \in DigitChars
           /\ s[i] \in DigitChars
           /\ DigitsFrom(s, i) % 3 = 0
          THEN <<".">> ELSE <<>>)
         \o <<s[i]>> \o DotGroupedFrom(s, i + 1)

DotGrouped(s) == DotGroupedFrom(s, 1)

HasDash(s) == \E k \in 1..Len(s) : s[k] = "-"

\* what the rule table gives for the sanitized token t
MaskTable(t) ==
  LET prefix == SubSeq(t, 1, Len(t) - 1)
      last == t[Len(t)]
  IN  IF Len(t) <= 1 THEN t
      ELSE IF last = "K" THEN DotGrouped(prefix) \o <<"-", "K">>
      ELSE IF Len(t) = 8 /\ \A k \in 1..8 : t[k] \in DigitChars THEN DotGrouped(t)
      ELSE IF Len(t) >= 9 THEN DotGrouped(prefix) \o <<"-", last>>
      ELSE DotGrouped(t)

\* C16: maskRutInput follows its rule table on the sanitized token t: t of
\* length 0 or 1 unchanged; t ending in K as the dot-grouped prefix and "-K";
\* t of exactly 8 digits dot-grouped with no dash; t of 9 or more characters
\* as the dot-grouped prefix, "-" and the last digit; any other t dot-grouped
\* with no dash.  Hence the output of a token of 2 or more characters has a
\* dash exactly when t ends in K or has 9 or more characters.
C16_MaskRuleTable ==
  \A i \in CallIdx :
    calls[i].op = "maskRutInput"
      => LET t == RefToken(calls[i].arg)
         IN  /\ calls[i].ret = MaskTable(t)
             /\ Len(t) >= 2
                  => (HasDash(calls[i].ret) <=> (t[Len(t)] = "K" \/ Len(t) >= 9))

\* a token of 9 or more characters with a K before its last digit was masked
\* and got dots and its dash
C16_Witness ==
  \E i \in CallIdx :
    /\ calls[i].op = "maskRutInput"
    /\ Len(RefToken(calls[i].arg)) >= 9
    /\ RefToken(calls[i].arg)[Len(RefToken(calls[i].arg))] \in DigitChars
    /\ \E k \in 1..Len(calls[i].arg) : calls[i].arg[k] = "K"
    /\ HasDash(calls[i].ret)
    /\ \E k \in 1..Len(calls[i].ret) : calls[i].ret[k] = "."

(***************************************************************************)
(* C17  The three renderings of formatRut                                  *)
(***************************************************************************)

\* s without its leading zeros, "0" if nothing is left
RECURSIVE RefStripZeros(_)
RefStripZeros(s) ==
  IF s = <<>> THEN <<"0">>
  ELSE IF s[1] = "0" THEN RefStripZeros(Tail(s))
  ELSE s

\* s in chunks of three counted from the right, joined by "."
RECURSIVE RefChunksFrom(_, _)
RefChunksFrom(s, i) ==
  IF i > Len(s) THEN <<>>
  ELSE (IF i > 1 /\ (Len(s) - i + 1) % 3 = 0 THEN <<".">> ELSE <<>>)
         \o <<s[i]>> \o RefChunksFrom(s, i + 1)

RefChunks(s) == RefChunksFrom(s, 1)

\* the rendering of body B and check character c
RefRender(B, c, format) ==
  CASE format = "nodash" -> B \o c
    [] format = "dash" -> B \o <<"-">> \o c
    [] format = "dotdash" -> RefChunks(B) \o <<"-">> \o c

\* the check character formatRut renders: the decomposed one, or the
\* modulo 11 one of the body when none was decomposed
RenderedCheck(x) ==
  LET d == deconstructRut(x)
  IN  IF d.verifier # <<>> THEN d.verifier ELSE RefCheck(d.digits)

\* C17: whenever formatRut(x, f) is non-empty it is B c for nodash, B "-" c
\* for dash and the chunks of three of B joined by "." then "-" c for dotdash,
\* with B the decomposed body without leading zeros ("0" if it is all zeros)
\* and c the upper-case check character.
C17_RenderingsDifferInSeparators ==
  \A i \in CallIdx :
    (calls[i].op = "formatRut" /\ calls[i].ret # <<>>)
      => calls[i].ret = RefRender(RefStripZeros(deconstructRut(calls[i].arg).digits),
                                  RenderedCheck(calls[i].arg), calls[i].format)

(***************************************************************************)
(* C18  hasRutStructure                                                    *)
(***************************************************************************)

\* C18: hasRutStructure(s) is true exactly when the sanitized token of s, its
\* digits and letters K, has 3 or more characters.
C18_StructureIffTokenLength ==
  \A i \in CallIdx :
    (calls[i].op = "hasRutStructure" /\ IsText(calls[i].arg))
      => (calls[i].ret = TRUE <=> Len(RefToken(calls[i].arg)) >= 3)

\* C18 as the code has it: hasRutStructure(s) is true exactly when s has 3 or
\* more decimal digits; the letters K do not count.
C18_StructureIffThreeDigits ==
  \A i \in CallIdx :
    (calls[i].op = "hasRutStructure" /\ IsText(calls[i].arg))
      => (calls[i].ret = TRUE <=> Len(RefDigits(calls[i].arg)) >= 3)

\* hasRutStructure answered false for a token of 3 or more characters that
\* has fewer than 3 digits
C18_Witness ==
  \E i \in CallIdx :
    /\ calls[i].op = "hasRutStructure"
    /\ IsText(calls[i].arg)
    /\ Len(RefToken(calls[i].arg)) >= 3
    /\ Len(RefDigits(calls[i].arg)) < 3
    /\ calls[i].ret = FALSE

(***************************************************************************)
(* The check character: a caller that may hold no string at all            *)
(***************************************************************************)

InitVerifier ==
  /\ input \in Inputs \cup {Null}
  /\ calls = <<>>
  /\ dvCache = EmptyCache

NextVerifier ==
  \/ calculateRutVerifierCall
  \/ completeRutCall
  \/ clearCache

SpecVerifier == InitVerifier /\ [][NextVerifier]_vars

(***************************************************************************)
(* C19  null, never "", where nothing can be computed                      *)
(***************************************************************************)

CheckCharacters == {<<c>> : c \in DigitChars \cup {"K"}}

\* a string of one or more characters
IsNonEmptyText(x) ==
  /\ x # <<>>
  /\ IsText(x)
  /\ x # TypeError

\* C19: calculateRutVerifier returns null exactly when its argument has no
\* decimal digit (empty, absent, only other characters) and a string of one
\* character otherwise; completeRut of a string returns null exactly when the
\* digits of the string are not 6 to 8 and a non-empty string otherwise.
C19_NullNeverEmpty ==
  \A i \in CallIdx :
    /\ calls[i].op = "calculateRutVerifier"
         => /\ calls[i].ret = Null <=> ~HasDigit(calls[i].arg)
            /\ calls[i].ret # Null => calls[i].ret \in CheckCharacters
    /\ (calls[i].op = "completeRut" /\ IsText(calls[i].arg))
         => /\ calls[i].ret = Null <=> ~IsRutBody(RefDigits(calls[i].arg))
            /\ calls[i].ret # Null => IsNonEmptyText(calls[i].ret)

\* the same string has a check character and cannot be completed
C19_Witness ==
  \E i, j \in CallIdx :
    /\ calls[i].op = "calculateRutVerifier"
    /\ calls[j].op = "completeRut"
    /\ calls[i].arg = calls[j].arg
    /\ IsText(calls[i].arg)
    /\ calls[i].ret \in CheckCharacters
    /\ calls[j].ret = Null

(***************************************************************************)
(* The sample: a caller that asks for sample RUTs and validates them        *)
(***************************************************************************)

\* the caller holds a sample body of its own, bare
InitSample ==
  /\ input \in {validRuts[k] : k \in 1..Len(validRuts)}
  /\ calls = <<>>
  /\ dvCache = EmptyCache

generateRandomRutCall ==
  /\ CanCall
  /\ \E format \in RutFormats, randomIndex \in 0..(Len(validRuts) - 1) :
       LET r == generateRandomRut(format, randomIndex, dvCache)
       IN  /\ Call("generateRandomRut", <<>>, format, r.ret)
           /\ dvCache' = r.cache
  /\ UNCHANGED input

NextSample ==
  \/ generateRandomRutCall
  \/ validateRutFullCall
  \/ clearCache

SpecSample == InitSample /\ [][NextSample]_vars

(***************************************************************************)
(* C20  generateRandomRut returns valid RUTs                               *)
(***************************************************************************)

\* s is a sample body with its modulo 11 check character, written in format
IsSample(s, format) ==
  \E k \in 1..Len(validRuts) :
    s = RefRender(validRuts[k], RefCheck(validRuts[k]), format)

\* C20: whatever body the random choice selects and whatever the format, the
\* string generateRandomRut returns is non-empty, is one of the sample bodies
\* with its check character, and validateRutFull of it is true, both when
\* evaluated on the spot and when the caller calls validateRutFull on it.
C20_SampleIsValid ==
  \A i \in CallIdx :
    /\ calls[i].op = "generateRandomRut"
         => /\ calls[i].ret # <<>>
            /\ IsSample(calls[i].ret, calls[i].format)
            /\ validateRutFull(calls[i].ret, dvCache).ret = TRUE
    /\ \A j \in CallIdx :
         (/\ i < j
          /\ calls[i].op = "generateRandomRut"
          /\ calls[j].op = "validateRutFull"
          /\ calls[j].arg = calls[i].ret)
           => calls[j].ret = TRUE

\* the 6-digit sample was returned with its check character K, dotted, and
\* validateRutFull accepted it
C20_Witness ==
  /\ Len(calls) >= 2
  /\ calls[1].op = "generateRandomRut"
  /\ calls[1].format = "dotdash"
  /\ calls[1].ret = <<"8", "0", "0", ".", "0", "0", "0", "-", "K">>
  /\ calls[2].op = "validateRutFull"
  /\ calls[2].arg = calls[1].ret
  /\ calls[2].ret = TRUE

(***************************************************************************)
(* The sanitizer: a caller that cleans what was typed, pasted or is absent *)
(***************************************************************************)

\* characters cleanRut removes
Junk == {" ", ".", "-", "a", "x"}

\* t with the character j after each of its characters
Interleave(t, j) ==
  [i \in 1..(2 * Len(t)) |-> IF i % 2 = 1 THEN t[(i + 1) \div 2] ELSE j]

CleanInputs ==
  Inputs
    \cup {Null}
    \cup {<<j>> \o t \o <<j>> : t \in Tokens, j \in Junk}
    \cup {Interleave(t, j) : t \in Tokens, j \in Junk}

InitClean ==
  /\ input \in CleanInputs
  /\ calls = <<>>
  /\ dvCache = EmptyCache

cleanRutCall ==
  /\ CanCall
  /\ \E arg \in Args : Call("cleanRut", arg, NoFormat, cleanRut(arg))
  /\ UNCHANGED <<input, dvCache>>

NextClean ==
  \/ cleanRutCall
  \/ deconstructRutCall

SpecClean == InitClean /\ [][NextClean]_vars

(***************************************************************************)
(* C21  cleanRut is a filter                                               *)
(***************************************************************************)

\* C21: for every string, cleanRut returns the characters of the string that
\* are decimal digits or k or K, in their order, every k as K; the empty
\* string and null give the empty string; and cleanRut of a result of
\* cleanRut is that result.
C21_CleanIsFilter ==
  \A i \in CallIdx :
    calls[i].op = "cleanRut"
      => /\ calls[i].ret = (IF calls[i].arg = Null THEN <<>>
                            ELSE RefToken(calls[i].arg))
         /\ cleanRut(calls[i].ret) = calls[i].ret
         /\ \A j \in CallIdx :
              (/\ i < j
               /\ calls[j].op = "cleanRut"
               /\ calls[j].arg = calls[i].ret)
                => calls[j].ret = calls[i].ret

\* a string with a lower-case k, digits and other characters was cleaned, and
\* the result was cleaned again
C21_Witness ==
  /\ Len(calls) = 2
  /\ calls[1].op = "cleanRut"
  /\ calls[2].op = "cleanRut"
  /\ \E k \in 1..Len(calls[1].arg) : calls[1].arg[k] = "k"
  /\ \E k \in 1..Len(calls[1].arg) : calls[1].arg[k] \in Junk
  /\ Len(calls[1].ret) >= 3
  /\ Len(calls[1].ret) < Len(calls[1].arg)
  /\ calls[2].arg = calls[1].ret
  /\ calls[2].ret = calls[1].ret

(***************************************************************************)
(* C22  validateRutFull accepts well-formed tokens only                    *)
(***************************************************************************)

\* t is a body of 6 to 8 digits followed by its modulo 11 check character
IsWellFormedToken(t) ==
  /\ Len(t) >= 1
  /\ IsRutBody(SubSeq(t, 1, Len(t) - 1))
  /\ <<t[Len(t)]>> = RefCheck(SubSeq(t, 1, Len(t) - 1))

\* C22: whenever validateRutFull(x) is true, the sanitized token of x is 6, 7
\* or 8 decimal digits followed by one check character, and that character is
\* the modulo 11 check character of those digits.
C22_AcceptsWellFormedOnly ==
  \A i \in CallIdx :
    (calls[i].op = "validateRutFull" /\ calls[i].ret = TRUE)
      => IsWellFormedToken(RefToken(calls[i].arg))

====
